---- MODULE Spec2Model ----
(***************************************************************************)
(* Model of resume-analyzer (src/resume analyzer/app.py): the ATS scoring  *)
(* functions, the contact extractors, the match scorer and the Flask       *)
(* request handlers with their SQLite tables.                              *)
(*                                                                         *)
(* A text is a record [toks, pad, kw]: the whitespace-separated tokens     *)
(* toks (joined by single spaces), followed by pad copies of the stop word *)
(* "the" and by the first kw words of a fixed list of distinct lower-case  *)
(* alphabetic filler words that are no stop words, contain no action verb  *)
(* and no section name, and are different from every vocabulary token.     *)
(* Scores are kept exact: a sub-score is an integer number of 1/150, an    *)
(* ATS score an integer number of 1/150 points, a match score an integer   *)
(* number of 1/100 points.                                                 *)
(***************************************************************************)
EXTENDS Integers, Sequences, FiniteSets, TLC

VARIABLES text, text2, jd, op, out, db, reqs, started, applied, skipped, succeeded

vars == <<text, text2, jd, op, out, db, reqs, started, applied, skipped, succeeded>>

(* ------------------------------ bounds --------------------------------- *)
MaxChunks == 2
MaxPad == 1003
MaxKw == 52
MaxNameLen == 5
MaxMatchLen == 2
NumReq == 2
MaxStarted == 3

(* ------------------------------ helpers -------------------------------- *)
Min(a, b) == IF a <= b THEN a ELSE b

SeqUpTo(S, n) == UNION {[1..k -> S] : k \in 0..n}

RECURSIVE Flatten(_)
Flatten(ss) == IF ss = <<>> THEN <<>> ELSE Head(ss) \o Flatten(Tail(ss))

RECURSIVE SumSeq(_)
SumSeq(s) == IF s = <<>> THEN 0 ELSE Head(s) + SumSeq(Tail(s))

Range(s) == {s[i] : i \in 1..Len(s)}

(* ------------------- the vocabulary and its regex facts ---------------- *)
(* str.lower() of a token *)
Lower(t) ==
  CASE t = "Experience" -> "experience" [] t = "Education" -> "education"
    [] t = "Skills" -> "skills" [] t = "Summary" -> "summary"
    [] t = "Projects" -> "projects" [] t = "JOHN" -> "john"
    [] t = "SMITH" -> "smith" [] t = "MARY" -> "mary"
    [] t = "RESUME" -> "resume" [] t = "SUMMARY" -> "summary"
    [] t = "SKILLS" -> "skills" [] t = "Python" -> "python"
    [] t = "SQL" -> "sql" [] t = "Java" -> "java"
    [] OTHER -> t

(* str.title() of an all-caps word *)
Title(t) ==
  CASE t = "JOHN" -> "John" [] t = "SMITH" -> "Smith" [] t = "MARY" -> "Mary"
    [] t = "RESUME" -> "Resume" [] t = "SUMMARY" -> "Summary"
    [] t = "SKILLS" -> "Skills" [] t = "SQL" -> "Sql"
    [] OTHER -> t

(* stopwords.words('english'), as far as the vocabulary goes *)
stop_words == {"the", "by", "a"}

(* re.findall(r'\w+', token): the words of one token *)
Words(t) ==
  CASE t = "john@mail.com" -> <<"john", "mail", "com">>
    [] t = "a1@b2.c3" -> <<"a1", "b2", "c3">>
    [] t = "github.com" -> <<"github", "com">>
    [] t = "2019-2021" -> <<"2019", "2021">>
    [] t = "30%" -> <<"30">>
    [] OTHER -> <<t>>

(* word.isalpha() *)
IsAlpha(w) == w \notin {"a1", "b2", "c3", "2019", "2021", "30", "9876543210"}

ACTION_VERBS == <<"achieved", "managed", "developed", "led", "implemented",
                  "increased", "reduced", "optimized", "created", "designed">>

(* verb in token.lower(): a substring test, so "handled" contains "led" *)
VerbsIn(t) ==
  CASE Lower(t) \in Range(ACTION_VERBS) -> {Lower(t)}
    [] t = "handled" -> {"led"}
    [] OTHER -> {}

(* number of matches of the quantifier pattern that start in the token:    *)
(* one per run of digits that begins at a word boundary                    *)
NumQuant(t) ==
  CASE t = "30%" -> 1 [] t = "9876543210" -> 1 [] t = "2019-2021" -> 2
    [] OTHER -> 0

sections == <<"experience", "education", "skills", "summary", "projects">>

(* re.search(rf'\b{section}\b', token, re.I) *)
HasSection(t, section) == Lower(t) = section

(* re.search(r'(\d{4})\s*-\s*(present|\d{4})', token) *)
HasDateRange(t) == t = "2019-2021"

(* re.search(r'[\w\.-]+@[\w\.-]+', token): the matched text, "" for none *)
EmailIn(t) == IF t \in {"john@mail.com", "a1@b2.c3"} THEN t ELSE ""

(* re.search(r'(\+?\d{10,13})', token): the matched text, "" for none *)
PhoneIn(t) == IF t = "9876543210" THEN t ELSE ""

(* re.search(r'linkedin\.com|github\.com', token) *)
HasLink(t) == t = "github.com"

(* the characters of the class [\d -] at the two ends of a token: DigAll   *)
(* when the whole token is of that class, else the lengths of its longest  *)
(* prefix and suffix of that class (each begins and ends with a digit)     *)
DigAll(t) == t \in {"9876543210", "2019-2021"}
DigLen(t) == CASE t = "9876543210" -> 10 [] t = "2019-2021" -> 9 [] OTHER -> 0
DigPre(t) == IF t = "30%" THEN 2 ELSE 0
DigSuf(t) == IF t = "a1@b2.c3" THEN 1 ELSE 0

(* the token as a whole is [A-Z][A-Z]+ between word boundaries *)
IsCaps(t) == t \in {"JOHN", "SMITH", "MARY", "RESUME", "SUMMARY", "SKILLS", "SQL"}

Vocab == {"the", "by", "increased", "sales", "30%", "Experience", "Education",
          "Skills", "Summary", "Projects", "john@mail.com", "a1@b2.c3",
          "9876543210", "github.com", "2019-2021", "achieved", "managed",
          "developed", "led", "implemented", "reduced", "handled", "JOHN",
          "SMITH", "MARY", "RESUME", "SUMMARY", "SKILLS", "SQL", "Python",
          "python", "Java"}

Txt(toks) == [toks |-> toks, pad |-> 0, kw |-> 0]

EmptyText == Txt(<<>>)

(* ------------------------- ATS scoring functions ----------------------- *)
RECURSIVE CountWords(_)
CountWords(toks) ==
  IF toks = <<>> THEN 0 ELSE Len(Words(Head(toks))) + CountWords(Tail(toks))

(* len(re.findall(r'\w+', text)) *)
word_count(t) == CountWords(t.toks) + t.pad + t.kw

(* the distinct lower-cased alphabetic words that are no stop words *)
filtered_words(toks) ==
  {Lower(w) : w \in {x \in UNION {Range(Words(tk)) : tk \in Range(toks)} :
                        IsAlpha(x) /\ Lower(x) \notin stop_words}}

calculate_keyword_density(t) ==
  Min((Cardinality(filtered_words(t.toks)) + t.kw) * 3, 150)

verbs_found(t) ==
  {ACTION_VERBS[i] : i \in {j \in 1..Len(ACTION_VERBS) :
       \E tk \in Range(t.toks) : ACTION_VERBS[j] \in VerbsIn(tk)}}

count_action_verbs(t) == Min(Cardinality(verbs_found(t)) * 30, 150)

RECURSIVE CountQuant(_)
CountQuant(toks) ==
  IF toks = <<>> THEN 0 ELSE NumQuant(Head(toks)) + CountQuant(Tail(toks))

(* the pattern cut down to r'\b\d+%\b': no token matches it, as no word    *)
(* character follows the % sign                                            *)
check_quantifiable_results_percent_only(t) == Min(0 * CountQuant(t.toks), 150)

check_quantifiable_results(t) == Min(CountQuant(t.toks) * 50, 150)

structure_raw(t) ==
  Cardinality({i \in 1..Len(sections) :
                  \E tk \in Range(t.toks) : HasSection(tk, sections[i])})
  + (IF \E tk \in Range(t.toks) : HasDateRange(tk) THEN 1 ELSE 0)

(* the same without the clamp *)
evaluate_structure_unclamped(t) == structure_raw(t) * 30

evaluate_structure(t) == Min(structure_raw(t) * 30, 150)

(* re.search(r'\+?\d[\d -]{8,}\d', text): run is the length of the stretch *)
(* of [\d -] characters that ends at the end of the tokens read so far     *)
RECURSIVE LoosePhone(_, _)
LoosePhone(toks, run) ==
  IF toks = <<>> THEN FALSE
  ELSE LET tk == Head(toks)
           lead == IF run > 0 THEN run + 1 ELSE 0
       IN  IF DigAll(tk)
           THEN lead + DigLen(tk) >= 10 \/ LoosePhone(Tail(toks), lead + DigLen(tk))
           ELSE (DigPre(tk) > 0 /\ lead + DigPre(tk) >= 10)
                \/ LoosePhone(Tail(toks), DigSuf(tk))

contact_items(t) ==
  (IF \E tk \in Range(t.toks) : EmailIn(tk) # "" THEN 1 ELSE 0)
  + (IF LoosePhone(t.toks, 0) THEN 1 ELSE 0)
  + (IF \E tk \in Range(t.toks) : HasLink(tk) THEN 1 ELSE 0)

check_contact_info(t) == contact_items(t) * 50

(* the same with 800 excluded from the full band *)
check_length_strict(t) ==
  LET n == word_count(t)
  IN  IF 400 <= n /\ n < 800 THEN 150
      ELSE IF (300 <= n /\ n < 400) \/ (800 < n /\ n <= 1000) THEN 75
      ELSE 0

check_length(t) ==
  LET n == word_count(t)
  IN  IF 400 <= n /\ n <= 800 THEN 150
      ELSE IF (300 <= n /\ n < 400) \/ (800 < n /\ n <= 1000) THEN 75
      ELSE 0

(* the weights, in hundredths *)
ATS_PARAMETERS ==
  [keyword_density |-> 30, action_verbs |-> 15, quantifiable_results |-> 20,
   structure |-> 15, contact_info |-> 10, length |-> 10]

Params == <<"keyword_density", "action_verbs", "quantifiable_results",
            "structure", "contact_info", "length">>

sub_scores(t) ==
  [keyword_density |-> calculate_keyword_density(t),
   action_verbs |-> count_action_verbs(t),
   quantifiable_results |-> check_quantifiable_results(t),
   structure |-> evaluate_structure(t),
   contact_info |-> check_contact_info(t),
   length |-> check_length(t)]

weighted_sum(scores) ==
  SumSeq([i \in 1..Len(Params) |-> scores[Params[i]] * ATS_PARAMETERS[Params[i]]])

(* in 1/150 points: 15000 is the score 100 *)
calculate_ats_score(t) == Min(weighted_sum(sub_scores(t)), 15000)

TierLow == "Your resume needs significant optimization to pass ATS screening."
TierMid == "Your resume is decent but could be improved for better ATS performance."
TierHigh == "Excellent! Your resume is well-optimized for ATS systems."
MsgKeyword == "Increase keyword density with more relevant skills."
MsgVerbs == "Add more action verbs like 'achieved', 'managed', 'developed'."
MsgQuant == "Include quantifiable achievements (e.g., 'increased sales by 30%')."
MsgStructure == "Improve structure with clear section headings."
MsgContact == "Ensure all contact info (email, phone, LinkedIn) is included."
MsgShort == "Resume is too short - aim for 400-800 words."
MsgLong == "Resume is too long - keep under 800 words."

AppendIf(s, cond, msg) == IF cond THEN Append(s, msg) ELSE s

(* the same with the structure line before the quantifiable-results line *)
generate_feedback_reordered(score, t) ==
  LET f0 == <<IF score < 9000 THEN TierLow
              ELSE IF score < 12000 THEN TierMid ELSE TierHigh>>
      f1 == AppendIf(f0, calculate_keyword_density(t) < 75, MsgKeyword)
      f2 == AppendIf(f1, count_action_verbs(t) < 75, MsgVerbs)
      f3 == AppendIf(f2, evaluate_structure(t) < 105, MsgStructure)
      f4 == AppendIf(f3, check_quantifiable_results(t) < 75, MsgQuant)
      f5 == AppendIf(f4, check_contact_info(t) < 150, MsgContact)
      n == word_count(t)
  IN  IF n < 400 THEN Append(f5, MsgShort)
      ELSE IF n > 800 THEN Append(f5, MsgLong)
      ELSE f5

(* score in 1/150 points: 9000 is 60, 12000 is 80; 75 is the sub-score 0.5 *)
generate_feedback(score, t) ==
  LET f0 == <<IF score < 9000 THEN TierLow
              ELSE IF score < 12000 THEN TierMid ELSE TierHigh>>
      f1 == AppendIf(f0, calculate_keyword_density(t) < 75, MsgKeyword)
      f2 == AppendIf(f1, count_action_verbs(t) < 75, MsgVerbs)
      f3 == AppendIf(f2, check_quantifiable_results(t) < 75, MsgQuant)
      f4 == AppendIf(f3, evaluate_structure(t) < 105, MsgStructure)
      f5 == AppendIf(f4, check_contact_info(t) < 150, MsgContact)
      n == word_count(t)
  IN  IF n < 400 THEN Append(f5, MsgShort)
      ELSE IF n > 800 THEN Append(f5, MsgLong)
      ELSE f5

(* ------------------------- contact extractors -------------------------- *)
NotFound == <<"Not Found">>

RECURSIVE FirstMatch(_, _)
FirstMatch(toks, sentinel) ==
  IF toks = <<>> THEN sentinel
  ELSE IF EmailIn(Head(toks)) # "" THEN EmailIn(Head(toks))
  ELSE FirstMatch(Tail(toks), sentinel)

(* the same with the empty string for no match *)
extract_email_or_empty(t) == FirstMatch(t.toks, "")

(* a string: the first e-mail match, or the sentinel "Not Found" *)
extract_email(t) == FirstMatch(t.toks, "Not Found")

RECURSIVE FirstPhone(_)
FirstPhone(toks) ==
  IF toks = <<>> THEN "Not Found"
  ELSE IF PhoneIn(Head(toks)) # "" THEN PhoneIn(Head(toks))
  ELSE FirstPhone(Tail(toks))

extract_phone(t) == FirstPhone(t.toks)

(* Python's `a or b` on strings *)
PyOr(a, b) == IF a # "" THEN a ELSE b

(* number of all-caps words at the head of toks, at most 4 *)
RECURSIVE CapsRun(_, _)
CapsRun(toks, limit) ==
  IF limit = 0 \/ toks = <<>> \/ ~IsCaps(Head(toks)) THEN 0
  ELSE 1 + CapsRun(Tail(toks), limit - 1)

(* name_pattern.findall(text): greedy, left to right, not overlapping *)
RECURSIVE name_matches(_)
name_matches(toks) ==
  IF toks = <<>> THEN <<>>
  ELSE LET k == CapsRun(toks, 4)
       IN  IF k >= 2
           THEN <<SubSeq(toks, 1, k)>> \o name_matches(SubSeq(toks, k + 1, Len(toks)))
           ELSE name_matches(Tail(toks))

blacklist == {"RESUME", "SUMMARY", "SKILLS", "PROJECTS", "EDUCATION",
              "EXPERIENCE", "CERTIFICATIONS"}

(* re.search(r'\d', word): no all-caps word holds a digit *)
HasDigit(w) == w \in {"30%", "a1@b2.c3", "9876543210", "2019-2021"}

RECURSIVE FirstValid(_)
FirstValid(matches) ==
  IF matches = <<>> THEN NotFound
  ELSE LET match == Head(matches)
       IN  IF (\A i \in 1..Len(match) : match[i] \notin blacklist)
              /\ ~(\E i \in 1..Len(match) : HasDigit(match[i]))
           THEN [i \in 1..Len(match) |-> Title(match[i])]
           ELSE FirstValid(Tail(matches))

(* the name as the sequence of its title-cased words, or NotFound *)
extract_name(t) == FirstValid(name_matches(t.toks))

(* ------------------------------ match score ---------------------------- *)
(* the same without lower() *)
token_set_as_written(t) ==
  Range(t.toks) \cup (IF t.pad > 0 THEN {"the"} ELSE {})

(* set(text.lower().split()) without the filler keywords *)
token_set(t) ==
  {Lower(tk) : tk \in Range(t.toks)} \cup (IF t.pad > 0 THEN {"the"} ELSE {})

(* round(100 * c / n, 2) in hundredths, ties to even *)
Round2(c, n) ==
  LET q == (10000 * c) \div n
      r == (10000 * c) % n
  IN  IF 2 * r > n THEN q + 1
      ELSE IF 2 * r = n THEN q + (q % 2)
      ELSE q

(* the same with the resume's token count as the divisor *)
calculate_match_score_by_resume(resume_text, job_desc_text) ==
  LET common_words == token_set(resume_text) \cap token_set(job_desc_text)
      ncommon == Cardinality(common_words) + Min(resume_text.kw, job_desc_text.kw)
      nres == Cardinality(token_set(resume_text)) + resume_text.kw
  IN  IF nres = 0
      THEN [raised |-> TRUE, common_words |-> common_words, score |-> 0]
      ELSE [raised |-> FALSE, common_words |-> common_words,
            score |-> Min(Round2(ncommon, nres), 10000)]

(* raised: the division by len(job_desc_words) = 0 raises ZeroDivisionError *)
calculate_match_score(resume_text, job_desc_text) ==
  LET common_words == token_set(resume_text) \cap token_set(job_desc_text)
      ncommon == Cardinality(common_words) + Min(resume_text.kw, job_desc_text.kw)
      njob == Cardinality(token_set(job_desc_text)) + job_desc_text.kw
  IN  IF njob = 0
      THEN [raised |-> TRUE, common_words |-> common_words, score |-> 0]
      ELSE [raised |-> FALSE, common_words |-> common_words,
            score |-> Min(Round2(ncommon, njob), 10000)]

(* score in hundredths *)
generate_match_feedback(score) ==
  IF score > 7000 THEN "Excellent match!"
  ELSE IF score > 4000 THEN "Good match but could be improved."
  ELSE "Low match. Consider tailoring your resume."

(* ------------------------------ the inputs ----------------------------- *)
Bullet == <<"increased", "sales", "by", "30%">>

Chunks == {Bullet, <<"Experience">>, <<"john@mail.com">>, <<"a1@b2.c3">>,
           <<"9876543210">>, <<"github.com">>, <<"2019-2021">>,
           <<"achieved", "managed", "developed", "led", "implemented", "reduced">>,
           <<"Education", "Skills", "Summary">>,
           <<"Experience", "Education", "Skills", "Summary", "Projects">>,
           <<"handled">>, <<"JOHN", "SMITH">>, <<"SKILLS">>}

(* what the rest of a fixture resume is made of *)
FixtureChunks == {<<"9876543210">>, <<"github.com">>, <<"2019-2021">>,
                  <<"achieved", "managed", "developed", "led", "implemented", "reduced">>,
                  <<"Experience", "Education", "Skills", "Summary", "Projects">>}

NameVocab == {"JOHN", "SMITH", "RESUME", "SUMMARY", "the"}

MatchVocab == {"Python", "python", "Java", "the"}

PadVals == {0, 397, 500, 997}

KwVals == {0, 22, 50}

(* texts made of phrases, alone and with filler words *)
PhraseTexts ==
  {[toks |-> Flatten(cs), pad |-> p, kw |-> k] :
     cs \in SeqUpTo(Chunks, MaxChunks), p \in PadVals, k \in KwVals}

(* every word count from 0 to MaxPad + 4 *)
LengthTexts ==
  {[toks |-> tk, pad |-> p, kw |-> 0] : tk \in {<<>>, Bullet}, p \in 0..MaxPad}

(* every number of distinct keywords from 0 to MaxKw + 6 *)
DensityTexts ==
  {[toks |-> tk, pad |-> p, kw |-> k] :
     tk \in {<<>>, Bullet \o <<"Experience", "john@mail.com">>},
     p \in {0, 400}, k \in 0..MaxKw}

(* the 500-word resumes with one e-mail address, the quantified bullet and *)
(* an Experience heading *)
FixtureTexts ==
  {t \in {[toks |-> Bullet \o <<"Experience", e>> \o Flatten(cs),
           pad |-> 500 - k - CountWords(Bullet \o <<"Experience", e>> \o Flatten(cs)),
           kw |-> k] :
             e \in {"john@mail.com", "a1@b2.c3"},
             cs \in SeqUpTo(FixtureChunks, MaxChunks),
             k \in {0, 19, 22, 44, 50}} : t.pad >= 0}

NameTexts == {Txt(tk) : tk \in SeqUpTo(NameVocab, MaxNameLen)}


MatchTexts == {Txt(tk) : tk \in SeqUpTo(MatchVocab, MaxMatchLen)}

(* scores handed to generate_feedback, in 1/150 points *)
ScoreInputs == {0, 8999, 9000, 11999, 12000, 15000}

NoOut == [score |-> 0, scores |-> <<>>, feedback |-> <<>>, name |-> <<>>,
          first |-> <<>>, second |-> <<>>]

NoDb == [resumes |-> <<>>, job_matches |-> <<>>,
         app_analytics |-> [present |-> FALSE, resumes_uploaded |-> 0,
                            jds_uploaded |-> 0, ats_checks |-> 0,
                            match_checks |-> 0]]

Fields == {"resumes_uploaded", "jds_uploaded", "ats_checks", "match_checks"}

Zero == [f \in Fields |-> 0]

AppIdle ==
  /\ db = NoDb
  /\ reqs = <<>>
  /\ started = 0
  /\ applied = Zero
  /\ skipped = Zero
  /\ succeeded = Zero

(* --------------------- the scoring functions on a text ----------------- *)
InitText ==
  /\ \/ text \in PhraseTexts
     \/ text \in LengthTexts
     \/ text \in DensityTexts
     \/ text \in FixtureTexts
     \/ text \in NameTexts
  /\ text2 = EmptyText
  /\ jd = EmptyText
  /\ op = "input"
  /\ out = NoOut
  /\ AppIdle

AtsScore ==
  /\ op = "input"
  /\ op' = "calculate_ats_score"
  /\ out' = [NoOut EXCEPT !.scores = sub_scores(text),
                          !.score = calculate_ats_score(text)]
  /\ UNCHANGED <<text, text2, jd, db, reqs, started, applied, skipped, succeeded>>

Feedback ==
  /\ op = "input"
  /\ \E score \in ScoreInputs \cup {calculate_ats_score(text)} :
       out' = [NoOut EXCEPT !.score = score,
                            !.feedback = generate_feedback(score, text)]
  /\ op' = "generate_feedback"
  /\ UNCHANGED <<text, text2, jd, db, reqs, started, applied, skipped, succeeded>>

ExtractName ==
  /\ op = "input"
  /\ op' = "extract_name"
  /\ out' = [NoOut EXCEPT !.name = extract_name(text)]
  /\ UNCHANGED <<text, text2, jd, db, reqs, started, applied, skipped, succeeded>>

NextText == AtsScore \/ Feedback \/ ExtractName

SpecText == InitText /\ [][NextText]_vars

(* ------------------- the match score of two resumes -------------------- *)
InitMatch ==
  /\ text \in MatchTexts
  /\ text2 \in MatchTexts
  /\ jd \in MatchTexts
  /\ op = "input"
  /\ out = NoOut
  /\ AppIdle

MatchScore ==
  /\ op = "input"
  /\ op' = "calculate_match_score"
  /\ out' = [NoOut EXCEPT !.first = calculate_match_score(text, jd),
                          !.second = calculate_match_score(text2, jd)]
  /\ UNCHANGED <<text, text2, jd, db, reqs, started, applied, skipped, succeeded>>

NextMatch == MatchScore

SpecMatch == InitMatch /\ [][NextMatch]_vars

(* ----------------------- properties of the scoring --------------------- *)
(* C1: calculate_ats_score returns s with 0 <= s <= 100; s is 100 times    *)
(* the weighted sum of the six sub-scores (weights 0.30, 0.15, 0.20, 0.15, *)
(* 0.10, 0.10, summing to 1.0), each sub-score in [0,1], clamped to 100.   *)
AtsScoreInRange ==
  op = "calculate_ats_score" =>
    LET sc == out.scores
    IN  /\ \A i \in 1..Len(Params) : 0 <= sc[Params[i]] /\ sc[Params[i]] <= 150
        /\ out.score = Min(30 * sc.keyword_density + 15 * sc.action_verbs
                           + 20 * sc.quantifiable_results + 15 * sc.structure
                           + 10 * sc.contact_info + 10 * sc.length, 15000)
        /\ 0 <= out.score /\ out.score <= 15000
        /\ 30 + 15 + 20 + 15 + 10 + 10 = 100

(* a text with all five headings and a date range, where the clamp acts *)
AtsScoreClampWitness ==
  /\ op = "calculate_ats_score"
  /\ structure_raw(text) = 6
  /\ out.scores.structure = 150
  /\ out.score > 0

(* C6: check_length is 1.0 for 400..800 words, 0.5 for 300..399 and for    *)
(* 801..1000 words, 0 otherwise; 400 and 800 give 1.0, 399 and 801 give    *)
(* 0.5, 250 and 1001 give 0.                                               *)
LengthBands ==
  op = "calculate_ats_score" =>
    LET n == word_count(text)
        len == out.scores.length
    IN  /\ n \in 400..800 => len = 150
        /\ n \in (300..399) \cup (801..1000) => len = 75
        /\ n < 300 \/ n > 1000 => len = 0
        /\ n \in {400, 800} => len = 150
        /\ n \in {399, 801} => len = 75
        /\ n \in {250, 1001} => len = 0

LengthBandsWitness ==
  /\ op = "calculate_ats_score"
  /\ word_count(text) = 800
  /\ out.scores.length = 150

(* the lines generate_feedback is to return, built from the three parts *)
DeficiencyLines(t) ==
  <<[low |-> calculate_keyword_density(t) < 75, msg |-> MsgKeyword],
    [low |-> count_action_verbs(t) < 75, msg |-> MsgVerbs],
    [low |-> check_quantifiable_results(t) < 75, msg |-> MsgQuant],
    [low |-> evaluate_structure(t) < 105, msg |-> MsgStructure],
    [low |-> check_contact_info(t) < 150, msg |-> MsgContact]>>

IsLow(d) == d.low

ExpectedFeedback(score, t) ==
  LET tier == IF score < 9000 THEN TierLow
              ELSE IF score >= 12000 THEN TierHigh ELSE TierMid
      chosen == SelectSeq(DeficiencyLines(t), IsLow)
      lines == [i \in 1..Len(chosen) |-> chosen[i].msg]
      length == IF word_count(t) < 400 THEN <<MsgShort>>
                ELSE IF word_count(t) > 800 THEN <<MsgLong>> ELSE <<>>
  IN  <<tier>> \o lines \o length

(* C7: generate_feedback returns one overall-tier message, then the        *)
(* deficiency lines that apply in the fixed order keyword_density,         *)
(* action_verbs, quantifiable_results, structure, contact_info, then at    *)
(* most one length line (too short below 400 words, too long above 800).   *)
FeedbackOrder ==
  op = "generate_feedback" =>
    /\ out.feedback = ExpectedFeedback(out.score, text)
    /\ ~({MsgShort, MsgLong} \subseteq Range(out.feedback))

(* every deficiency line and a length line are present *)
FeedbackOrderWitness ==
  /\ op = "generate_feedback"
  /\ Len(out.feedback) = 7
  /\ out.feedback[4] = MsgQuant
  /\ out.feedback[5] = MsgStructure

(* a resume of 500 words with one e-mail address, the quantified bullet    *)
(* and an Experience heading                                               *)
IsFixture(t) ==
  /\ word_count(t) = 500
  /\ Cardinality({i \in 1..Len(t.toks) : EmailIn(t.toks[i]) # ""}) = 1
  /\ \E i \in 1..Len(t.toks) : t.toks[i] = "Experience"
  /\ \E i \in 1..(Len(t.toks) - 3) : SubSeq(t.toks, i, i + 3) = Bullet

NoLengthLine == MsgShort \notin Range(out.feedback) /\ MsgLong \notin Range(out.feedback)

(* C8 as stated: every such resume scores above 50 (7500 in 1/150 points)  *)
(* and its feedback has neither the too-short nor the too-long line.       *)
FixtureAboveFifty ==
  /\ (op = "calculate_ats_score" /\ IsFixture(text)) => out.score > 7500
  /\ (op = "generate_feedback" /\ IsFixture(text)) => NoLengthLine

(* C8 amended: every such resume scores at least 27.8 (4170 in 1/150       *)
(* points), a score that the rest of the text may or may not lift above    *)
(* 50, and its feedback has neither the too-short nor the too-long line.   *)
FixtureScoreFloor ==
  /\ (op = "calculate_ats_score" /\ IsFixture(text)) => out.score >= 4170
  /\ (op = "generate_feedback" /\ IsFixture(text)) => NoLengthLine

(* a fixture resume that scores 50 or less *)
FixtureScoreFloorWitness ==
  /\ op = "calculate_ats_score"
  /\ IsFixture(text)
  /\ out.score <= 7500

CapsTokens(t) == {i \in 1..Len(t.toks) : IsCaps(t.toks[i])}

(* JOHN SMITH stands in the text and every other all-caps word of the text *)
(* is a blacklisted heading word                                           *)
JohnSmithAmongHeadings(t) ==
  \E i \in 1..(Len(t.toks) - 1) :
    /\ t.toks[i] = "JOHN"
    /\ t.toks[i + 1] = "SMITH"
    /\ \A j \in CapsTokens(t) \ {i, i + 1} : t.toks[j] \in blacklist

(* C5: extract_name returns the first run of 2 to 4 all-caps words without a    *)
(* blacklisted word, title-cased: a text with JOHN SMITH yields John Smith *)
(* also when blacklisted heading words stand directly before or after it,  *)
(* and a text whose only all-caps words are blacklisted yields Not Found.  *)
NameBesideHeadings ==
  op = "extract_name" =>
    /\ JohnSmithAmongHeadings(text) => out.name = <<"John", "Smith">>
    /\ (\A j \in CapsTokens(text) : text.toks[j] \in blacklist) => out.name = NotFound

(* --------------------- properties of the match score ------------------- *)
Shared(a, b) == Cardinality(token_set(a) \cap token_set(b)) + Min(a.kw, b.kw)

(* C3: for a job description with a non-empty token set the match score is *)
(* in [0,100] and is the ratio shared / job-description tokens times 100   *)
(* (to two decimals): two resumes that share the same number of tokens     *)
(* with the job description get the same score.                            *)
MatchDependsOnRatio ==
  (op = "calculate_match_score" /\ token_set(jd) # {}) =>
    LET n == Cardinality(token_set(jd)) + jd.kw
        d == out.first.score * n - 10000 * Shared(text, jd)
    IN  /\ ~out.first.raised
        /\ 0 <= out.first.score /\ out.first.score <= 10000
        /\ 2 * d <= n /\ -2 * d <= n
        /\ Shared(text, jd) = Shared(text2, jd) => out.first.score = out.second.score

(* two resumes of different size that share one of two tokens *)
MatchDependsOnRatioWitness ==
  /\ op = "calculate_match_score"
  /\ Cardinality(token_set(jd)) = 2
  /\ Shared(text, jd) = 1
  /\ Shared(text2, jd) = 1
  /\ Cardinality(token_set(text)) # Cardinality(token_set(text2))
  /\ out.first.score = 5000
  /\ out.second.score = 5000

(* C4 as stated: tokens are compared as written, so the shared tokens are  *)
(* those that occur in both texts in the same letter case.                 *)
MatchIsCaseSensitive ==
  op = "calculate_match_score" =>
    Cardinality(out.first.common_words)
      = Cardinality((Range(text.toks) \cap Range(jd.toks)))

(* C4 amended: both texts are lower-cased before the whitespace split, so  *)
(* a job-description token is shared exactly when the resume has a token   *)
(* that equals it up to letter case.                                       *)
MatchIgnoresCase ==
  op = "calculate_match_score" =>
    \A y \in Range(jd.toks) :
      (Lower(y) \in out.first.common_words)
        <=> (\E x \in Range(text.toks) : Lower(x) = Lower(y))

(* "Python" in the resume against "python" in the job description *)
MatchIgnoresCaseWitness ==
  /\ op = "calculate_match_score"
  /\ text.toks = <<"Python">>
  /\ jd.toks = <<"python">>
  /\ out.first.common_words = {"python"}
  /\ out.first.score = 10000

(* ----------------------- the request handlers ------------------------- *)
(* the same, but creating the row when it is missing *)
update_analytics_upsert(analytics, field) ==
  [analytics EXCEPT !.present = TRUE, ![field] = @ + 1]

(* UPDATE app_analytics SET field = field + 1 WHERE id = 1: one atomic     *)
(* statement, which changes no row when the row with id 1 is missing       *)
update_analytics(analytics, field) ==
  IF analytics.present THEN [analytics EXCEPT ![field] = @ + 1] ELSE analytics

Reqs == 1..NumReq

IdleReq == [pc |-> "idle", kind |-> "none", how |-> "none", text |-> EmptyText,
            jd |-> EmptyText, resp |-> "none", seen |-> FALSE]

(* what extract_text returns for the uploaded files *)
AppTexts == {EmptyText, Txt(<<"john@mail.com", "9876543210">>), Txt(<<"9876543210">>)}

AppResumes == {Txt(<<"Python", "Java">>)}

AppJds == {EmptyText, Txt(<<"python", "the">>)}

(* how a request arrives (one that is no allowed POST comes with empty     *)
(* files, which the handler does not read). get: a GET request; nofile: the form has no file *)
(* part; noname: the file name is empty; badext: allowed_file rejects the  *)
(* name; ok: a POST with allowed files                                     *)
Hows == {"get", "nofile", "noname", "badext", "ok"}

(* the analytics column each kind of request counts in *)
FieldOf(kind) ==
  CASE kind = "ats_checker" -> "ats_checks"
    [] kind = "compatibility_test" -> "match_checks"
    [] OTHER -> "resumes_uploaded"

Init ==
  /\ text = EmptyText
  /\ text2 = EmptyText
  /\ jd = EmptyText
  /\ op = "serve"
  /\ out = NoOut
  /\ db = NoDb
  /\ reqs = [r \in Reqs |-> IdleReq]
  /\ started = 0
  /\ applied = Zero
  /\ skipped = Zero
  /\ succeeded = Zero

(* a worker that is idle or has sent its response takes the next request *)
Free(r) == reqs[r].pc \in {"idle", "done"} /\ started < MaxStarted

(* the answer of ats_checker and compatibility_test to all but an allowed  *)
(* POST                                                                    *)
EarlyReturn(how) ==
  CASE how = "get" -> "form"
    [] how \in {"nofile", "noname"} -> "redirect"
    [] OTHER -> "invalid"

Reply(kind, how, resp) ==
  [IdleReq EXCEPT !.pc = "done", !.kind = kind, !.how = how, !.resp = resp]

resume_row(t) ==
  [text |-> t, ats_score |-> calculate_ats_score(t),
   contact_info |-> PyOr(extract_email(t), extract_phone(t))]

(* ats_checker from the arrival of the request to the commit of its INSERT *)
ats_checker(r) ==
  /\ Free(r)
  /\ started' = started + 1
  /\ \E how \in Hows, t \in AppTexts :
       IF how # "ok"
       THEN /\ t = EmptyText
            /\ reqs' = [reqs EXCEPT ![r] = Reply("ats_checker", how, EarlyReturn(how))]
            /\ db' = db
       ELSE /\ db' = [db EXCEPT !.resumes = Append(@, resume_row(t))]
            /\ reqs' = [reqs EXCEPT ![r] =
                 [IdleReq EXCEPT !.pc = "committed", !.kind = "ats_checker",
                                 !.how = how, !.text = t]]
  /\ UNCHANGED <<text, text2, jd, op, out, applied, skipped, succeeded>>

(* resume_ranking from the arrival of the request to the commit of its     *)
(* INSERT; every early return and an exception end in a redirect           *)
resume_ranking(r) ==
  /\ Free(r)
  /\ started' = started + 1
  /\ \E how \in Hows, t \in AppTexts :
       IF how # "ok"
       THEN /\ t = EmptyText
            /\ reqs' = [reqs EXCEPT ![r] =
                 Reply("resume_ranking", how, IF how = "get" THEN "form" ELSE "redirect")]
            /\ db' = db
       ELSE /\ db' = [db EXCEPT !.resumes = Append(@, resume_row(t))]
            /\ reqs' = [reqs EXCEPT ![r] =
                 [IdleReq EXCEPT !.pc = "committed", !.kind = "resume_ranking",
                                 !.how = how, !.text = t]]
  /\ UNCHANGED <<text, text2, jd, op, out, applied, skipped, succeeded>>

(* compatibility_test from the arrival of the request to the commit of its *)
(* INSERT; an exception of calculate_match_score is answered with status   *)
(* 500                                                                     *)
compatibility_test(r) ==
  /\ Free(r)
  /\ started' = started + 1
  /\ \E how \in Hows, t \in AppResumes, j \in AppJds :
       IF how # "ok"
       THEN /\ j = EmptyText
            /\ reqs' = [reqs EXCEPT ![r] =
                 Reply("compatibility_test", how, EarlyReturn(how))]
            /\ db' = db
       ELSE LET m == calculate_match_score(t, j)
            IN  IF m.raised
                THEN /\ reqs' = [reqs EXCEPT ![r] =
                          [Reply("compatibility_test", how, "500") EXCEPT !.jd = j]]
                     /\ db' = db
                ELSE /\ db' = [db EXCEPT !.job_matches =
                          Append(@, [match_score |-> m.score,
                                     feedback |-> generate_match_feedback(m.score)])]
                     /\ reqs' = [reqs EXCEPT ![r] =
                          [IdleReq EXCEPT !.pc = "committed",
                                          !.kind = "compatibility_test",
                                          !.how = how, !.text = t, !.jd = j]]
  /\ UNCHANGED <<text, text2, jd, op, out, applied, skipped, succeeded>>

(* the rest of the three handlers: update_analytics and the result page *)
UpdateAnalytics(r) ==
  /\ reqs[r].pc = "committed"
  /\ LET field == FieldOf(reqs[r].kind)
     IN  /\ db' = [db EXCEPT !.app_analytics = update_analytics(@, field)]
         /\ IF db.app_analytics.present
            THEN applied' = [applied EXCEPT ![field] = @ + 1] /\ skipped' = skipped
            ELSE skipped' = [skipped EXCEPT ![field] = @ + 1] /\ applied' = applied
         /\ succeeded' = [succeeded EXCEPT ![field] = @ + 1]
  /\ reqs' = [reqs EXCEPT ![r] =
       [Reply(reqs[r].kind, reqs[r].how, "200") EXCEPT !.jd = reqs[r].jd]]
  /\ UNCHANGED <<text, text2, jd, op, out, started>>

(* admin_dashboard from the arrival of the request to its SELECT of the    *)
(* row with id 1; a wrong admin_key is answered with status 403            *)
admin_dashboard(r) ==
  /\ Free(r)
  /\ started' = started + 1
  /\ \E key \in {"secret123", "other"} :
       IF key # "secret123"
       THEN reqs' = [reqs EXCEPT ![r] = Reply("admin_dashboard", "badkey", "403")]
       ELSE reqs' = [reqs EXCEPT ![r] =
              [IdleReq EXCEPT !.pc = "selected", !.kind = "admin_dashboard",
                              !.how = "ok", !.seen = db.app_analytics.present]]
  /\ UNCHANGED <<text, text2, jd, op, out, db, applied, skipped, succeeded>>

(* the rest of admin_dashboard: INSERT the row if the SELECT found none;   *)
(* the INSERT of a second row with id 1 fails and nothing catches it       *)
AdminInsert(r) ==
  /\ reqs[r].pc = "selected"
  /\ IF reqs[r].seen
     THEN reqs' = [reqs EXCEPT ![r] = Reply("admin_dashboard", "ok", "200")] /\ db' = db
     ELSE IF db.app_analytics.present
     THEN reqs' = [reqs EXCEPT ![r] = Reply("admin_dashboard", "ok", "500")] /\ db' = db
     ELSE /\ db' = [db EXCEPT !.app_analytics.present = TRUE]
          /\ reqs' = [reqs EXCEPT ![r] = Reply("admin_dashboard", "ok", "200")]
  /\ UNCHANGED <<text, text2, jd, op, out, started, applied, skipped, succeeded>>

Next ==
  \E r \in Reqs :
    \/ ats_checker(r)
    \/ resume_ranking(r)
    \/ compatibility_test(r)
    \/ UpdateAnalytics(r)
    \/ admin_dashboard(r)
    \/ AdminInsert(r)

Spec == Init /\ [][Next]_vars

(* ----------------------- properties of the handlers ------------------- *)
(* C2: a compatibility check whose job description has an empty token set  *)
(* yields a defined result with score 0 (stored in job_matches) and does   *)
(* not end in an error response.                                           *)
EmptyJobDescriptionScoresZero ==
  \A r \in DOMAIN reqs :
    (/\ reqs[r].kind = "compatibility_test"
     /\ reqs[r].how = "ok"
     /\ reqs[r].pc = "done"
     /\ token_set(reqs[r].jd) = {} /\ reqs[r].jd.kw = 0)
    => (/\ reqs[r].resp = "200"
        /\ \E i \in 1..Len(db.job_matches) : db.job_matches[i].match_score = 0)

Counters == {"resumes_uploaded", "ats_checks", "match_checks"}

Committed(kinds) ==
  Cardinality({r \in DOMAIN reqs : reqs[r].pc = "committed" /\ reqs[r].kind \in kinds})

ContactInfoIsEmail ==
  \A i \in 1..Len(db.resumes) :
    LET row == db.resumes[i]
    IN  /\ row.contact_info = extract_email(row.text)
        /\ row.contact_info # ""
        /\ (\A k \in 1..Len(row.text.toks) : EmailIn(row.text.toks[k]) = "")
             => row.contact_info = "Not Found"
        /\ extract_phone(row.text) # "Not Found"
             => row.contact_info # extract_phone(row.text)

(* a stored text with a phone number and no e-mail address *)
ContactInfoIsEmailWitness ==
  \E i \in 1..Len(db.resumes) :
    /\ db.resumes[i].text = Txt(<<"9876543210">>)
    /\ extract_phone(db.resumes[i].text) = "9876543210"
    /\ db.resumes[i].contact_info = "Not Found"

====
